---- MODULE Spec2Model ----
(***************************************************************************)
(* A model of detect.py: the per-frame result processing of                *)
(* overlay_boxes (label lines, box overlays, saved images, console         *)
(* summary) and the frame loop of main.                                    *)
(*                                                                         *)
(* Three specifications share the definitions below.                       *)
(*   Spec      one frame with a batch of up to MaxBatch predictions of up  *)
(*             to MaxDets detections, handed to overlay_boxes by a caller  *)
(*             that supplies its five parameters, run up to MaxRuns times  *)
(*             against the same output directory.                          *)
(*   SpecRuns  up to MaxFrames frames over several source paths, one       *)
(*             prediction of at most one detection each, run up to         *)
(*             MaxRuns times.                                              *)
(*   SpecMain  main as it executes: the loop body calls the name           *)
(*             `inference`, which the module neither defines nor imports.  *)
(*                                                                         *)
(* Numbers.  Pixel coordinates are kept in half pixels (the integer 21     *)
(* stands for 10.5), so that rounding and the centre of a box are exact.   *)
(* Scores are kept in thousandths.                                         *)
(***************************************************************************)
EXTENDS Integers, Sequences, FiniteSets, TLC

VARIABLES
    args,        \* the run configuration: save_txt, save_img, view_img, webcam, mode
    source,      \* what the frame source yields: <<[path, detections], ...>>
    fi,          \* index of the next frame the loop pulls
    run,         \* number of the current invocation against the output directory
    status,      \* "INIT", "RUNNING", "DONE", "REPORTED" or "FAILED"
    labelFiles,  \* output directory, text files: file name -> lines
    imageFiles,  \* output directory, image files: file name -> rasters written
    img,         \* the raster handed to the last overlay_boxes call
    console,     \* lines printed by the current invocation
    result       \* how the last call ended, and what it returned

vars == <<args, source, fi, run, status, labelFiles, imageFiles, img, console, result>>

----------------------------------------------------------------------------
(* Bounds *)

MaxDets == 2
MaxBatch == 1
MaxFrames == 2
MaxRuns == 2

(* plot_one_box(..., line_thickness=3) *)
LineThickness == 3

----------------------------------------------------------------------------
(* Input domains *)

(* get_coco_names: one name per line of the category file, index = class id *)
Names == <<"person", "bicycle">>

NumNames == Len(Names)

(* a class id one past the table is the smallest unknown id *)
Labels == 0 .. NumNames

(* source paths: same name in two directories, same stem with two suffixes *)
Paths ==
    { [dir |-> "a", stem |-> "x", ext |-> "jpg"],
      [dir |-> "b", stem |-> "x", ext |-> "jpg"],
      [dir |-> "b", stem |-> "x", ext |-> "png"] }

(* the source path of the one frame of Spec *)
CallPath == [dir |-> "a", stem |-> "x", ext |-> "jpg"]

(* (H, W) of every frame *)
Shape == <<400, 200>>

(* corner boxes as the detector returns them, in half pixels:             *)
(* (10, 20, 110, 220) and (3.5, 5, 13, 20.5)                               *)
BoxA == <<20, 40, 220, 440>>

BoxB == <<7, 10, 26, 41>>

(* confidences in thousandths *)
Scores == {906}

SeqsUpTo(S, n) == UNION { [1 .. k -> S] : k \in 0 .. n }

Dets == [box : {BoxA}, score : Scores, label : Labels]

(* a per-image prediction: None, an object of length 0, or the dict of    *)
(* boxes, scores and labels (length 3 whatever the number of detections)  *)
NonePred == [kind |-> "none", dets |-> <<>>]

EmptyPred == [kind |-> "empty", dets |-> <<>>]

DictPred(d) == [kind |-> "dict", dets |-> d]

Preds == {NonePred, EmptyPred} \cup { DictPred(d) : d \in SeqsUpTo(Dets, MaxDets) }

Batches == SeqsUpTo(Preds, MaxBatch)

RunDets == [box : {BoxA, BoxB}, score : Scores, label : Labels]

RunPreds == {NonePred, DictPred(<<>>)} \cup { DictPred(<<d>>) : d \in RunDets }

Args ==
    [save_txt : BOOLEAN, save_img : BOOLEAN, view_img : BOOLEAN,
     webcam : BOOLEAN, mode : {"images", "video"}]

RunArgs == { a \in Args : ~a.view_img /\ ~a.webcam }

----------------------------------------------------------------------------
(* Paths and the output directory *)

(* Path(path).name *)
PathName(path) == <<path.stem, path.ext>>

(* Path(path).stem *)
PathStem(path) == <<path.stem>>

(* save_path = output_dir / name *)
SavePath(path) == PathName(path)

TxtPathByName(path) == PathName(path)

(* txt_path = output_dir / stem *)
TxtPath(path) == PathStem(path)

(* f'{txt_path}.txt' *)
TxtFile(path) == TxtPath(path) \o <<"txt">>

(* the file names the output directory can hold *)
LabelKeys ==
    { PathStem(p) \o <<"txt">> : p \in Paths } \cup { PathName(p) \o <<"txt">> : p \in Paths }

ImageKeys == { PathName(p) : p \in Paths }

WriteTxtTruncate(content, line) == <<line>>

(* open(file, 'a') and f.write(line) *)
WriteTxt(content, line) == Append(content, line)

ImWriteAppend(content, raster) == Append(content, raster)

(* cv2.imwrite(path, img): the file holds this raster and nothing else *)
ImWrite(content, raster) == <<raster>>

----------------------------------------------------------------------------
(* Numbers and formatting *)

(* Tensor.round() on a value in half pixels: to the nearest integer,      *)
(* a half to the even neighbour                                           *)
Round(h) ==
    LET q == h \div 2
    IN  IF h % 2 = 0 THEN q ELSE IF q % 2 = 0 THEN q ELSE q + 1

RoundBox(b) == [k \in 1 .. 4 |-> Round(b[k])]

(* box_xyxy_to_cxcywh(xyxy): centre form of a corner box, from the box    *)
(* alone; the result is in half pixels                                    *)
box_xyxy_to_cxcywh(b) ==
    <<b[1] + b[3], b[2] + b[4], 2 * (b[3] - b[1]), 2 * (b[4] - b[2])>>

(* '%g' of a value given in halves: <<integer part, tenths digit>>, exact *)
(* while the value has at most six significant digits                     *)
FmtG(v2) == <<v2 \div 2, 5 * (v2 % 2)>>

(* '%.2f' of a score in thousandths: hundredths, for scores off a tie     *)
Fmt2f(t) == (t + 5) \div 10

(* ('%g ' * 5 + '\n') % (cls_name, *xywh) *)
LabelLine(label, xyxy) ==
    LET xywh == box_xyxy_to_cxcywh(xyxy)
    IN  <<FmtG(2 * label), FmtG(xywh[1]), FmtG(xywh[2]), FmtG(xywh[3]), FmtG(xywh[4])>>

----------------------------------------------------------------------------
(* Class names, colours, drawing *)

(* args.names[int(c)] does not raise: Python accepts -len .. len-1 *)
InRange(c) == c >= -NumNames /\ c < NumNames

NameOf(c) == IF c >= 0 THEN Names[c + 1] ELSE Names[c + NumNames + 1]

(* args.colors[int(c)]: one colour per class, fixed for the run *)
ColorOf(c) == <<"color", IF c >= 0 THEN c ELSE c + NumNames>>

ShouldDrawAlways(a) == TRUE

(* if args.save_img or args.view_img *)
ShouldDraw(a) == a.save_img \/ a.view_img

(* plot_one_box(xyxy, img, label, color, line_thickness): draws on img *)
plot_one_box(xyxy, raster, label, color) ==
    [raster EXCEPT !.drawn =
        Append(@, [box |-> xyxy, label |-> label, color |-> color,
                   thickness |-> LineThickness])]

(* the frame of a source path as the frame source yields it *)
LoadFrame(path) == [src |-> path, shape |-> Shape, drawn |-> <<>>]

----------------------------------------------------------------------------
(* The class summary *)

LabelsOf(dets) == [k \in 1 .. Len(dets) |-> dets[k].label]

RECURSIVE SortedSeq(_)
SortedSeq(S) ==
    IF S = {} THEN <<>>
    ELSE LET m == CHOOSE x \in S : \A y \in S : x <= y
         IN  <<m>> \o SortedSeq(S \ {m})

RECURSIVE FirstSeen(_, _)
FirstSeen(labels, seen) ==
    IF labels = <<>> THEN <<>>
    ELSE IF Head(labels) \in seen THEN FirstSeen(Tail(labels), seen)
    ELSE <<Head(labels)>> \o FirstSeen(Tail(labels), seen \cup {Head(labels)})

UniqueFirstSeen(labels) == FirstSeen(labels, {})

(* labels.unique(): the distinct values, sorted ascending *)
Unique(labels) == SortedSeq({ labels[k] : k \in DOMAIN labels })

(* (labels == c).sum() *)
CountOf(labels, c) == Cardinality({ k \in DOMAIN labels : labels[k] = c })

RECURSIVE SummaryFrom(_, _, _)
SummaryFrom(labels, u, k) ==
    IF k > Len(u) THEN [err |-> FALSE, items |-> <<>>]
    ELSE IF ~InRange(u[k]) THEN [err |-> TRUE, items |-> <<>>]
    ELSE LET rest == SummaryFrom(labels, u, k + 1)
         IN  [err |-> rest.err,
              items |-> <<[n |-> CountOf(labels, u[k]), name |-> NameOf(u[k])]>> \o rest.items]

SummaryUnchecked(labels) ==
    [err |-> FALSE,
     items |-> [k \in 1 .. Len(Unique(labels)) |->
                  [n |-> CountOf(labels, Unique(labels)[k]), name |-> "?"]]]

(* for c in labels.unique(): s += '%g %ss, ' % (n, args.names[int(c)]) *)
Summary(labels) == SummaryFrom(labels, Unique(labels), 1)

----------------------------------------------------------------------------
(* overlay_boxes *)

(* for xyxy, conf, cls_name in zip(boxes, scores, labels): ... *)
RECURSIVE WriteResults(_, _, _, _)
WriteResults(st, dets, k, a) ==
    IF k > Len(dets) \/ st.err # "" THEN st
    ELSE LET d == dets[k]
             xyxy == RoundBox(d.box)
             s1 == IF a.save_txt
                   THEN [st EXCEPT !.txt = WriteTxt(@, LabelLine(d.label, xyxy))]
                   ELSE st
             s2 == IF ~ShouldDraw(a) THEN s1
                   ELSE IF ~InRange(d.label) THEN [s1 EXCEPT !.err = "IndexError"]
                   ELSE [s1 EXCEPT !.img =
                            plot_one_box(xyxy, @,
                                         [name |-> NameOf(d.label), conf |-> Fmt2f(d.score)],
                                         ColorOf(d.label))]
         IN  WriteResults(s2, dets, k + 1, a)

(* one pass of the loop over the per-image predictions; i counts from 0 *)
ProcessPred(st, i, pred, a) ==
    LET prefix == IF a.webcam THEN <<i>> ELSE <<>>
        s1 == IF pred.kind = "dict"
              THEN LET bound == [st EXCEPT !.ret =
                                    [bound |-> TRUE,
                                     boxes |-> [k \in 1 .. Len(pred.dets) |->
                                                  RoundBox(pred.dets[k].box)],
                                     scores |-> [k \in 1 .. Len(pred.dets) |->
                                                   pred.dets[k].score],
                                     labels |-> LabelsOf(pred.dets)]]
                       sm == Summary(LabelsOf(pred.dets))
                   IN  IF sm.err THEN [bound EXCEPT !.err = "IndexError"]
                       ELSE WriteResults([bound EXCEPT !.s = sm.items], pred.dets, 1, a)
              ELSE [st EXCEPT !.s = <<>>]
    IN  IF s1.err # "" THEN s1
        ELSE LET s2 == [s1 EXCEPT !.out =
                           Append(@, [kind |-> "frame", prefix |-> prefix,
                                      shape |-> s1.img.shape, summary |-> s1.s])]
             IN  IF a.save_img /\ a.mode = "images"
                 THEN [s2 EXCEPT !.saved = ImWrite(@, s2.img)]
                 ELSE s2

RECURSIVE PredLoop(_, _, _, _)
PredLoop(st, detections, i, a) ==
    IF i > Len(detections) \/ st.err # "" THEN st
    ELSE PredLoop(ProcessPred(st, i - 1, detections[i], a), detections, i + 1, a)

NoReturn == [bound |-> FALSE, boxes |-> <<>>, scores |-> <<>>, labels |-> <<>>]

(* overlay_boxes(detections, path, img, time_consume, args), on the       *)
(* output directory (lf, imf); the elapsed time is not modelled           *)
overlay_boxes(detections, path, raster, a, lf, imf) ==
    LET st == PredLoop([txt |-> lf[TxtFile(path)], saved |-> imf[SavePath(path)],
                        img |-> raster, out |-> <<>>, s |-> <<>>,
                        ret |-> NoReturn, err |-> ""],
                       detections, 1, a)
        how == IF st.err # "" THEN st.err
               ELSE IF ~st.ret.bound THEN "UnboundLocalError"
               ELSE "ok"
    IN  [labelFiles |-> [lf EXCEPT ![TxtFile(path)] = st.txt],
         imageFiles |-> [imf EXCEPT ![SavePath(path)] = st.saved],
         img |-> st.img,
         out |-> st.out,
         result |-> [status |-> how,
                     value |-> IF how = "ok" THEN st.ret ELSE NoReturn]]

----------------------------------------------------------------------------
(* The frame loop *)

NoPath == [dir |-> "", stem |-> "", ext |-> ""]

NoResult == [status |-> "none", value |-> NoReturn]

InitStore ==
    /\ labelFiles = [k \in LabelKeys |-> <<>>]
    /\ imageFiles = [k \in ImageKeys |-> <<>>]
    /\ img = LoadFrame(NoPath)
    /\ console = <<>>
    /\ result = NoResult
    /\ fi = 1
    /\ run = 1

(* for path, img, im0s, vid_cap in dataset: overlay_boxes(...) *)
ProcessFrame ==
    /\ status = "RUNNING"
    /\ fi <= Len(source)
    /\ \E r \in {overlay_boxes(source[fi].detections, source[fi].path,
                                LoadFrame(source[fi].path), args, labelFiles, imageFiles)} :
           /\ labelFiles' = r.labelFiles
           /\ imageFiles' = r.imageFiles
           /\ img' = r.img
           /\ console' = console \o r.out
           /\ result' = r.result
           /\ status' = IF r.result.status = "ok" THEN "RUNNING" ELSE "FAILED"
    /\ fi' = fi + 1
    /\ UNCHANGED <<args, source, run>>

(* the frame source is exhausted: the for loop ends *)
Exhausted ==
    /\ status = "RUNNING"
    /\ fi > Len(source)
    /\ status' = "DONE"
    /\ UNCHANGED <<args, source, fi, run, labelFiles, imageFiles, img, console, result>>

(* print('Results saved to ...') if save_txt or save_img; print('Done. ...') *)
Report ==
    /\ status = "DONE"
    /\ console' =
         console
         \o (IF args.save_txt \/ args.save_img
             THEN <<[kind |-> "saved", prefix |-> <<>>, shape |-> <<>>, summary |-> <<>>]>>
             ELSE <<>>)
         \o <<[kind |-> "done", prefix |-> <<>>, shape |-> <<>>, summary |-> <<>>]>>
    /\ status' = "REPORTED"
    /\ UNCHANGED <<args, source, fi, run, labelFiles, imageFiles, img, result>>

(* the program is started again on the same source and output directory: *)
(* mkdir(parents=True, exist_ok=True) keeps what the directory holds      *)
Rerun ==
    /\ status \in {"REPORTED", "FAILED"}
    /\ run < MaxRuns
    /\ run' = run + 1
    /\ fi' = 1
    /\ status' = "RUNNING"
    /\ console' = <<>>
    /\ result' = NoResult
    /\ img' = LoadFrame(NoPath)
    /\ UNCHANGED <<args, source, labelFiles, imageFiles>>

Init ==
    /\ args \in Args
    /\ source \in { <<[path |-> CallPath, detections |-> b]>> : b \in Batches }
    /\ status = "RUNNING"
    /\ InitStore

Next == ProcessFrame \/ Exhausted \/ Report \/ Rerun

Spec == Init /\ [][Next]_vars

RunFrames == [path : Paths, detections : { <<p>> : p \in RunPreds }]

InitRuns ==
    /\ args \in RunArgs
    /\ source \in SeqsUpTo(RunFrames, MaxFrames)
    /\ status = "RUNNING"
    /\ InitStore

SpecRuns == InitRuns /\ [][Next]_vars

----------------------------------------------------------------------------
(* main as it executes *)

(* main up to the loop: model, data loader, names and colours *)
MainStart ==
    /\ status = "INIT"
    /\ status' = "RUNNING"
    /\ console' = Append(console, [kind |-> "args", prefix |-> <<>>, shape |-> <<>>,
                                   summary |-> <<>>])
    /\ UNCHANGED <<args, source, fi, run, labelFiles, imageFiles, img, result>>

(* model_out, time_consume = inference(model, img, is_half): the name     *)
(* inference is not defined, so the first frame pulled ends the run       *)
MainFrame ==
    /\ status = "RUNNING"
    /\ fi <= Len(source)
    /\ fi' = fi + 1
    /\ result' = [status |-> "NameError", value |-> NoReturn]
    /\ status' = "FAILED"
    /\ UNCHANGED <<args, source, run, labelFiles, imageFiles, img, console>>

InitMain ==
    /\ args \in Args
    /\ source \in SeqsUpTo(RunFrames, MaxFrames)
    /\ status = "INIT"
    /\ InitStore

NextMain == MainStart \/ MainFrame \/ Exhausted \/ Report

SpecMain == InitMain /\ [][NextMain]_vars

----------------------------------------------------------------------------
(* Vocabulary of the properties *)

RECURSIVE Repeat(_, _)
Repeat(s, k) == IF k <= 0 THEN <<>> ELSE s \o Repeat(s, k - 1)

UnknownLabel(pred) ==
    pred.kind = "dict" /\ \E k \in DOMAIN pred.dets : pred.dets[k].label > NumNames - 1

(* index of the first prediction of a batch holding an unknown label, *)
(* or one past the batch                                               *)
FirstBad(b) ==
    IF \E i \in DOMAIN b : UnknownLabel(b[i])
    THEN CHOOSE i \in DOMAIN b : UnknownLabel(b[i]) /\ \A j \in 1 .. i - 1 : ~UnknownLabel(b[j])
    ELSE Len(b) + 1

(* one label line for each detection of the first m predictions of a batch *)
RECURSIVE BatchLines(_, _)
BatchLines(b, m) ==
    IF m = 0 THEN <<>>
    ELSE BatchLines(b, m - 1)
         \o [k \in 1 .. Len(b[m].dets) |->
               LabelLine(b[m].dets[k].label, RoundBox(b[m].dets[k].box))]

RECURSIVE BatchDets(_, _)
BatchDets(b, m) == IF m = 0 THEN 0 ELSE BatchDets(b, m - 1) + Len(b[m].dets)

AllEmpty(b) == \A i \in DOMAIN b : b[i].kind # "dict" \/ b[i].dets = <<>>

(* the call on this batch ends in an exception *)
CallRaises(b) == FirstBad(b) <= Len(b) \/ \A i \in DOMAIN b : b[i].kind # "dict"

(* the frames a whole invocation hands to overlay_boxes: all of them, or *)
(* those up to the first whose call raises                               *)
Extent ==
    IF \E f \in DOMAIN source : CallRaises(source[f].detections)
    THEN CHOOSE f \in DOMAIN source :
           /\ CallRaises(source[f].detections)
           /\ \A g \in 1 .. f - 1 : ~CallRaises(source[g].detections)
    ELSE Len(source)

(* the frames handed to overlay_boxes so far, over all invocations *)
CallSeq == Repeat([f \in 1 .. Extent |-> f], run - 1) \o [f \in 1 .. fi - 1 |-> f]

StemTxt(path) == <<path.stem, "txt">>

RECURSIVE LinesFor(_, _, _)
LinesFor(key, calls, n) ==
    IF n = 0 THEN <<>>
    ELSE LET b == source[calls[n]].detections
         IN  LinesFor(key, calls, n - 1)
             \o (IF StemTxt(source[calls[n]].path) = key
                 THEN BatchLines(b, FirstBad(b) - 1)
                 ELSE <<>>)

(* position in calls of the last call that wrote the image named key, or 0 *)
RECURSIVE LastWriter(_, _, _)
LastWriter(key, calls, n) ==
    IF n = 0 THEN 0
    ELSE IF /\ <<source[calls[n]].path.stem, source[calls[n]].path.ext>> = key
            /\ FirstBad(source[calls[n]].detections) > 1
         THEN calls[n]
         ELSE LastWriter(key, calls, n - 1)

ClassOf(name) == CHOOSE c \in 0 .. NumNames - 1 : Names[c + 1] = name

FirstIndex(labels, c) == CHOOSE k \in DOMAIN labels : labels[k] = c /\ \A j \in 1 .. k - 1 : labels[j] # c

(* a printed value <<integer part, tenths digit>>, in tenths *)
Tenths(g) == 10 * g[1] + g[2]

(* the frame lines on the console stand, in order, for the predictions of *)
(* the one frame of Spec                                                   *)
SummaryLines == { i \in DOMAIN console : console[i].kind = "frame" /\ Len(source) = 1 }

SummaryCounts(i) ==
    LET labels == LabelsOf(source[1].detections[i].dets)
        items == console[i].summary
    IN  /\ Len(items) = Cardinality({ labels[k] : k \in DOMAIN labels })
        /\ \A k \in DOMAIN items :
             \E c \in { labels[j] : j \in DOMAIN labels } :
               items[k].name = Names[c + 1] /\ items[k].n = CountOf(labels, c)
        /\ \A j, k \in DOMAIN items : j # k => items[j].name # items[k].name

----------------------------------------------------------------------------
(* Properties *)

(* C1: a call whose batch holds no detection (every prediction None, of    *)
(* length 0, or without detections) returns normally, writes no label     *)
(* line, draws nothing, and the loop goes on.                              *)
C1_EmptySetCompletes ==
    ( /\ fi > 1 /\ result.status # "none" /\ Len(source) = 1
      /\ Len(source[1].detections) >= 1 /\ AllEmpty(source[1].detections) )
    => /\ result.status = "ok"
       /\ status # "FAILED"
       /\ img.drawn = <<>>
       /\ labelFiles[StemTxt(source[1].path)] = <<>>

(* C2: with save_txt, every invocation appends one line per detection to  *)
(* <stem>.txt, in detection order, keeping what the file held: after k    *)
(* invocations on the same frame the file holds k times the lines of one. *)
(* (A prediction with an unknown label, and those after it, add none.)    *)
C2_AppendsEveryRun ==
    (args.save_txt /\ Len(source) = 1)
    => LET b == source[1].detections
       IN  labelFiles[StemTxt(source[1].path)]
             = Repeat(BatchLines(b, FirstBad(b) - 1), IF fi > 1 THEN run ELSE run - 1)

C2_Witness ==
    /\ args.save_txt
    /\ status = "REPORTED"
    /\ run = 2
    /\ Len(source[1].detections) = 1
    /\ Len(source[1].detections[1].dets) = 2
    /\ Len(labelFiles[StemTxt(source[1].path)]) = 4

(* C3: with save_img and mode 'images', the image file named after the    *)
(* frame's source file name holds one raster: that of the last frame of   *)
(* that name handed to overlay_boxes, in whichever invocation.            *)
C3_ImageOverwritten ==
    (args.save_img /\ args.mode = "images")
    => \A key \in ImageKeys :
         LET w == LastWriter(key, CallSeq, Len(CallSeq))
         IN  IF w = 0 THEN imageFiles[key] = <<>>
             ELSE /\ Len(imageFiles[key]) = 1
                  /\ imageFiles[key][1].src = source[w].path
                  /\ Len(imageFiles[key][1].drawn)
                       = BatchDets(source[w].detections, FirstBad(source[w].detections) - 1)

C3_Witness ==
    /\ args.save_img /\ args.mode = "images"
    /\ status = "REPORTED"
    /\ run = 2
    /\ Len(source) = 2
    /\ source[1].path.dir # source[2].path.dir
    /\ source[1].path.ext = "jpg" /\ source[2].path.ext = "jpg"
    /\ Len(source[2].detections[1].dets) = 1
    /\ imageFiles[<<"x", "jpg">>] = <<img>>
    /\ img.src = source[2].path

(* C4 as stated: the summary lists each distinct label once with its      *)
(* count, in the order in which the labels are first met in the set.      *)
C4_SummaryFirstSeenOrder ==
    \A i \in SummaryLines :
      /\ SummaryCounts(i)
      /\ \A j, k \in DOMAIN console[i].summary :
           j < k => FirstIndex(LabelsOf(source[1].detections[i].dets),
                               ClassOf(console[i].summary[j].name))
                    < FirstIndex(LabelsOf(source[1].detections[i].dets),
                                 ClassOf(console[i].summary[k].name))

(* C4 amended: the summary lists each distinct label once with its count, *)
(* in ascending order of the label.                                        *)
C4_SummaryAscending ==
    \A i \in SummaryLines :
      /\ SummaryCounts(i)
      /\ \A j, k \in DOMAIN console[i].summary :
           j < k => ClassOf(console[i].summary[j].name) < ClassOf(console[i].summary[k].name)

C4_Witness ==
    /\ 1 \in SummaryLines
    /\ LabelsOf(source[1].detections[1].dets) = <<1, 0>>
    /\ Len(console[1].summary) = 2
    /\ console[1].summary[1].name = Names[1]

(* C5: a call on a frame of which some detection has a label above the    *)
(* table's highest index ends in IndexError, and the prediction holding   *)
(* that detection leaves no output: no label line, no box, no image;      *)
(* what the call wrote is what the predictions before it produced.        *)
C5_UnknownLabelNoOutput ==
    [][ ( /\ status = "RUNNING"
          /\ fi' = fi + 1
          /\ FirstBad(source[fi].detections) <= Len(source[fi].detections) )
        => LET b == source[fi].detections
               m == FirstBad(b) - 1
               p == source[fi].path
           IN  /\ result'.status = "IndexError"
               /\ status' = "FAILED"
               /\ labelFiles' =
                    [labelFiles EXCEPT ![StemTxt(p)] =
                        @ \o (IF args.save_txt THEN BatchLines(b, m) ELSE <<>>)]
               /\ Len(img'.drawn)
                    = (IF args.save_img \/ args.view_img THEN BatchDets(b, m) ELSE 0)
               /\ imageFiles' =
                    IF m >= 1 /\ args.save_img /\ args.mode = "images"
                    THEN [imageFiles EXCEPT ![<<p.stem, p.ext>>] = <<img'>>]
                    ELSE imageFiles
               /\ Len(console') = Len(console) + m
      ]_vars

C5_Witness ==
    /\ result.status = "IndexError"
    /\ status = "FAILED"
    /\ args.save_txt /\ args.save_img /\ args.mode = "images"
    /\ Len(source[1].detections) = 1
    /\ LabelsOf(source[1].detections[1].dets) = <<0, NumNames>>
    /\ labelFiles[StemTxt(source[1].path)] = <<>>
    /\ imageFiles[<<source[1].path.stem, source[1].path.ext>>] = <<>>

(* C6: the coordinates of every label line are the centre form of the box *)
(* divided by the frame's width and height.                                *)
C6_LineNormalized ==
    (args.save_txt /\ Len(source) = 1)
    => \A k \in DOMAIN labelFiles[StemTxt(source[1].path)] :
         LET line == labelFiles[StemTxt(source[1].path)][k]
             xyxy == RoundBox(BoxA)
             H == Shape[1]
             W == Shape[2]
         IN  /\ Tenths(line[2]) * 2 * W = 10 * (xyxy[1] + xyxy[3])
             /\ Tenths(line[3]) * 2 * H = 10 * (xyxy[2] + xyxy[4])
             /\ Tenths(line[4]) * W = 10 * (xyxy[3] - xyxy[1])
             /\ Tenths(line[5]) * H = 10 * (xyxy[4] - xyxy[2])

(* C7: with save_img and mode 'video', every frame processed is kept in   *)
(* the output written for its source path.                                 *)
C7_VideoFramesWritten ==
    (args.save_img /\ args.mode = "video" /\ status = "REPORTED")
    => \A f \in DOMAIN source :
         imageFiles[<<source[f].path.stem, source[f].path.ext>>] # <<>>

(* C8: with save_txt, save_img and view_img all unset, nothing is written *)
(* to the output directory and nothing is drawn on the frame.              *)
C8_NoFlagsNoOutput ==
    (~args.save_txt /\ ~args.save_img /\ ~args.view_img)
    => /\ \A k \in LabelKeys : labelFiles[k] = <<>>
       /\ \A k \in ImageKeys : imageFiles[k] = <<>>
       /\ img.drawn = <<>>

C8_Witness ==
    /\ ~args.save_txt /\ ~args.save_img /\ ~args.view_img
    /\ status = "REPORTED"
    /\ Len(source[1].detections) = 1
    /\ Len(source[1].detections[1].dets) = 2
    /\ result.status = "ok"
    /\ Len(console) = 2

(* C9: once main has left the loop, every frame of the source has been    *)
(* processed, in order, and the run is on its way to the final report.     *)
C9_EveryFrameThenReport ==
    (status \notin {"INIT", "RUNNING"})
    => /\ status \in {"DONE", "REPORTED"}
       /\ fi = Len(source) + 1
       /\ result.status \in {"none", "ok"}

(* C10: with save_txt, the lines of every frame go to the file named by   *)
(* the stem of its source path alone, in processing order, whatever the   *)
(* directory and the suffix of the path; no other file is written.         *)
C10_KeyedByStem ==
    args.save_txt
    => \A key \in LabelKeys : labelFiles[key] = LinesFor(key, CallSeq, Len(CallSeq))

C10_Witness ==
    /\ args.save_txt
    /\ status = "REPORTED"
    /\ run = 1
    /\ Len(source) = 2
    /\ source[1].path.dir # source[2].path.dir
    /\ source[1].path.ext # source[2].path.ext
    /\ source[1].detections[1].dets # <<>>
    /\ source[2].detections[1].dets # <<>>
    /\ source[1].detections[1].dets # source[2].detections[1].dets
    /\ Len(labelFiles[<<"x", "txt">>]) = 2

====
